---- MODULE Spec2Model ----
(***************************************************************************)
(* Connection-lifecycle and playback-resilience state machine of the       *)
(* 24/7 voice bot (index.js, with the uptime-server variant of the same    *)
(* file).  One action per run-to-completion step of the Node.js event      *)
(* loop: the module top level, a promise continuation, an event listener   *)
(* or a timer callback.  Timers are events that may fire at any moment     *)
(* after they were armed; the armed duration is kept in the state.         *)
(***************************************************************************)
EXTENDS Integers, Sequences, FiniteSets, TLC

\* ---- bounds of the model ----
MaxSpawns == 2
MaxSessions == 3
MaxHandlers == 2
MaxJoins == 2

\* ---- program constants ----
ShortDelay == 200
LongBackoff == 2000
GuildVoice == 2

VARIABLES
  variant,        \* "index" (index.js) or "uptime" (the express variant)
  TOKEN,          \* process.env.DISCORD_BOT_TOKEN
  VOICE_CHANNEL_ID, \* process.env.VOICE_CHANNEL_ID
  processState,   \* "init", "running", "exited"
  exitCode,       \* -1 while the process has not exited
  loginState,     \* "none", "pending", "ok"
  httpListening,  \* app.listen was called
  readyPc,        \* ready handler: "armed", "fetching", "done"
  resolved,       \* what channels.fetch last resolved to ("none": nothing yet)
  fileExists,     \* fs.existsSync(AUDIO_FILE) right now
  started,        \* playLoop._started
  loopPc,         \* "notStarted", "returned", "ready", "waitIdle", "sleep"
  loopDelay,      \* duration of the timer the loop sleeps on (0: none)
  listeners,      \* decode processes captured by the registered onState listeners
  procs,          \* decode processes: "running", "failed", "killed", "exited"
  spawnCalls,     \* number of createFFmpegStream calls
  playCalls,      \* number of player.play calls
  playerStatus,   \* "Idle", "Buffering", "Playing", "AutoPaused"
  playerRes,      \* decode process feeding the sink's resource (0: none)
  lastOutcome,    \* how the latest iteration's synchronous part ended
  loopLaunches,   \* number of playLoop() calls
  checkedMissing, \* the file was absent when ensureFileExists looked
  sessions,       \* voice connections: [status, channel, openedBy, selfDeaf,
                  \* selfMute]
  subscribers,    \* connections the player is subscribed to
  connection,     \* joinAndPlay closure -> its `connection` variable (0: unset)
  jpPc,           \* joinAndPlay closure: "none", "waitReady", "done"
  jpChannel,      \* joinAndPlay closure -> channel argument
  readyWait,      \* closure -> how its wait for Ready ended ("none": not yet)
  recListener,    \* closure -> connection its recovery listener is on (0: none)
  handlers,       \* running recovery handlers, oldest armed wait first
  destroyCalls,   \* number of connection.destroy() calls
  openCalls,      \* number of joinVoiceChannel calls
  lastRecovery,   \* latest destroy-and-rejoin: [observed, destroyed, opened]
  lastEnd         \* how the handler that ended last ended: "transient",
                  \* "rejoined", "unhandledRejection" ("none": none yet)

vars == <<variant, TOKEN, VOICE_CHANNEL_ID, processState, exitCode, loginState,
          httpListening, readyPc, resolved, fileExists, started, loopPc, loopDelay,
          listeners, procs, spawnCalls, playCalls, playerStatus, playerRes,
          lastOutcome, loopLaunches, checkedMissing, sessions, subscribers,
          connection, jpPc, jpChannel, readyWait, recListener, handlers,
          destroyCalls, openCalls, lastRecovery, lastEnd>>

startupVars == <<variant, TOKEN, VOICE_CHANNEL_ID, processState, exitCode,
                 loginState, httpListening>>
loopVars == <<started, loopPc, loopDelay, listeners, procs, spawnCalls,
              playCalls, playerStatus, playerRes, lastOutcome, loopLaunches,
              checkedMissing>>
\* The loop's variables other than the sink's status
loopRest == <<started, loopPc, loopDelay, listeners, procs, spawnCalls,
              playCalls, playerRes, lastOutcome, loopLaunches, checkedMissing>>
sessionVars == <<sessions, subscribers, connection, jpPc, jpChannel, readyWait,
                 recListener, handlers, destroyCalls, openCalls, lastRecovery,
                 lastEnd>>

Variants == {"index", "uptime"}
EnvValues == {"unset", "", "set"}
Closures == 1..MaxJoins

\* JavaScript truthiness of an environment string
Falsy(v) == v \in {"unset", ""}

\* Channel objects channels.fetch can resolve to; "null" is the caught failure.
\* Every discord.js channel object carries the method isVoiceBased.
VoiceChannel == [id |-> "voice", type |-> GuildVoice, isVoiceBased |-> "function"]
TextChannel == [id |-> "text", type |-> 0, isVoiceBased |-> "function"]
NullChannel == [id |-> "null", type |-> -1, isVoiceBased |-> "undefined"]
FetchResults == {VoiceChannel, TextChannel, NullChannel}

Truthy(x) == x # "undefined"

\* Outcomes of the synchronous part of one playLoop iteration
Throws == {"spawnThrows", "resourceThrows", "playThrows"}
Outcomes == Throws \cup {"ok"}

Init ==
  /\ variant \in Variants
  /\ TOKEN \in EnvValues
  /\ VOICE_CHANNEL_ID \in EnvValues
  /\ processState = "init"
  /\ exitCode = -1
  /\ loginState = "none"
  /\ httpListening = FALSE
  /\ readyPc = "armed"
  /\ resolved = "none"
  /\ fileExists \in BOOLEAN
  /\ started = FALSE
  /\ loopPc = "notStarted"
  /\ loopDelay = 0
  /\ listeners = {}
  /\ procs = <<>>
  /\ spawnCalls = 0
  /\ playCalls = 0
  /\ playerStatus = "Idle"
  /\ playerRes = 0
  /\ lastOutcome = "none"
  /\ loopLaunches = 0
  /\ checkedMissing = FALSE
  /\ sessions = <<>>
  /\ subscribers = {}
  /\ connection = [j \in Closures |-> 0]
  /\ jpPc = [j \in Closures |-> "none"]
  /\ jpChannel = [j \in Closures |-> "none"]
  /\ readyWait = [j \in Closures |-> "none"]
  /\ recListener = [j \in Closures |-> 0]
  /\ handlers = <<>>
  /\ destroyCalls = 0
  /\ openCalls = 0
  /\ lastRecovery = [observed |-> 0, destroyed |-> 0, opened |-> 0]
  /\ lastEnd = "none"

Running == processState = "running"

\* ---------------------------------------------------------------- startup

\* Faulty variant: only the token is checked
ConfigMissing_tokenOnly(tok, vc) == Falsy(tok)

\* if (!TOKEN) exit(1); if (!VOICE_CHANNEL_ID) exit(1)
ConfigMissing(tok, vc) == Falsy(tok) \/ Falsy(vc)

\* Module top level: configuration check, then (uptime variant) app.listen,
\* client and player creation, listener registration and client.login.
Main ==
  /\ processState = "init"
  /\ IF ConfigMissing(TOKEN, VOICE_CHANNEL_ID)
       THEN /\ processState' = "exited"
            /\ exitCode' = 1
            /\ UNCHANGED <<loginState, httpListening>>
       ELSE /\ processState' = "running"
            /\ httpListening' = (variant = "uptime")
            /\ loginState' = "pending"
            /\ UNCHANGED exitCode
  /\ UNCHANGED <<variant, TOKEN, VOICE_CHANNEL_ID, readyPc, resolved, fileExists>>
  /\ UNCHANGED loopVars
  /\ UNCHANGED sessionVars

\* client.login(TOKEN) resolves
LoginResolves ==
  /\ Running
  /\ loginState = "pending"
  /\ loginState' = "ok"
  /\ UNCHANGED <<variant, TOKEN, VOICE_CHANNEL_ID, processState, exitCode,
                 httpListening, readyPc, resolved, fileExists>>
  /\ UNCHANGED loopVars
  /\ UNCHANGED sessionVars

\* client.login(TOKEN).catch(...): process.exit(1)
LoginRejects ==
  /\ Running
  /\ loginState = "pending"
  /\ processState' = "exited"
  /\ exitCode' = 1
  /\ UNCHANGED <<variant, TOKEN, VOICE_CHANNEL_ID, loginState, httpListening,
                 readyPc, resolved, fileExists>>
  /\ UNCHANGED loopVars
  /\ UNCHANGED sessionVars

\* The media file appears or disappears on disk.  Only ensureFileExists
\* looks at the file, and only before the loop runs, so changes that happen
\* while the loop is running are not followed.
FileChanges ==
  /\ Running
  /\ loopPc \in {"notStarted", "returned"}
  /\ fileExists' = ~fileExists
  /\ UNCHANGED startupVars
  /\ UNCHANGED <<readyPc, resolved>>
  /\ UNCHANGED loopVars
  /\ UNCHANGED sessionVars

\* ---------------------------------------------------------- playback loop

\* Faulty variant: the library's default behaviour
noSubscriber_pause == "Pause"

\* createAudioPlayer({ behaviors: { noSubscriber: NoSubscriberBehavior.Play } })
noSubscriber == "Play"

\* The sink's status once the connections are ss and its subscriptions subs:
\* a playing sink that no Ready connection listens to pauses itself only
\* under the Pause behaviour
SinkStatus(status, subs, ss) ==
  IF /\ noSubscriber = "Pause"
     /\ status = "Playing"
     /\ \A s \in subs : ss[s].status # "Ready"
    THEN "AutoPaused" ELSE status

\* Faulty variant: the check never fails
ensureFileExists_always(exists) == TRUE

\* ensureFileExists(): the result of fs.existsSync(AUDIO_FILE)
ensureFileExists(exists) == exists

\* Faulty variant: the flag is not consulted
ShouldStartLoop_always(flag) == TRUE

\* if (!playLoop._started)
ShouldStartLoop(flag) == ~flag

\* Faulty variant: the exception leaves the loop
AfterCatch_propagates == [pc |-> "returned", delay |-> 0]

\* catch (err) { ...; await setTimeout(2000) } and back to while (true)
AfterCatch == [pc |-> "sleep", delay |-> LongBackoff]

\* Faulty variant: the long backoff is used after a normal end of track
AfterIdle_long == [pc |-> "sleep", delay |-> LongBackoff]

\* onState saw Idle: resolve(), then await setTimeout(200)
AfterIdle == [pc |-> "sleep", delay |-> ShortDelay]

\* ff.kill('SIGKILL') inside try/catch: only a running process changes
Kill(ps, p) == IF ps[p] = "running" THEN [ps EXCEPT ![p] = "killed"] ELSE ps

\* Every process of ks is sent SIGKILL
KillAll(ps, ks) ==
  [p \in 1..Len(ps) |-> IF p \in ks THEN Kill(ps, p)[p] ELSE ps[p]]

\* Faulty variant: onState stays registered
removeListener_forgotten(ls, p) == ls

\* player.removeListener('stateChange', onState), for the onState that
\* captured decode process p
removeListener(ls, p) == ls \ {p}

\* Decode processes that were spawned and have neither been killed nor exited
Unterminated == {p \in 1..Len(procs) : procs[p] = "running"}

\* playLoop() called from joinAndPlay: runs up to `await ensureFileExists()`,
\* whose continuation either returns or falls into while (true).
LaunchPlayLoop ==
  IF ShouldStartLoop(started)
    THEN /\ started' = TRUE
         /\ loopLaunches' = loopLaunches + 1
         /\ checkedMissing' = ~fileExists
         /\ loopPc' = IF ensureFileExists(fileExists) THEN "ready" ELSE "returned"
    ELSE UNCHANGED <<started, loopLaunches, checkedMissing, loopPc>>

\* The synchronous part of one iteration of while (true): createFFmpegStream,
\* createAudioResource, player.play, registration of onState; any of the three
\* calls may throw into the catch.  spawned is the state the child starts in:
\* "failed" is a spawn error reported through the 'error' event, whose stdout
\* ends at once.
Iterate(outcome, spawned) ==
  /\ spawnCalls < MaxSpawns
  /\ spawnCalls' = spawnCalls + 1
  /\ lastOutcome' = outcome
  /\ procs' = IF outcome = "spawnThrows" THEN procs ELSE Append(procs, spawned)
  /\ playCalls' = IF outcome \in {"ok", "playThrows"} THEN playCalls + 1 ELSE playCalls
  /\ IF outcome = "ok"
       THEN /\ playerStatus' = "Buffering"
            /\ playerRes' = Len(procs) + 1
            /\ listeners' = listeners \cup {Len(procs) + 1}
            /\ loopPc' = "waitIdle"
            /\ loopDelay' = 0
       ELSE /\ loopPc' = AfterCatch.pc
            /\ loopDelay' = AfterCatch.delay
            /\ UNCHANGED <<playerStatus, playerRes, listeners>>
  /\ UNCHANGED <<started, loopLaunches, checkedMissing>>

\* First iteration, entered from the continuation of `await ensureFileExists()`
LoopFirstIteration ==
  /\ Running
  /\ loopPc = "ready"
  /\ \E o \in Outcomes, sp \in {"running", "failed"} : Iterate(o, sp)
  /\ UNCHANGED startupVars
  /\ UNCHANGED <<readyPc, resolved, fileExists>>
  /\ UNCHANGED sessionVars

\* The 200 ms or 2000 ms timer fires and the loop goes round
LoopTimerFires ==
  /\ Running
  /\ loopPc = "sleep"
  /\ \E o \in Outcomes, sp \in {"running", "failed"} : Iterate(o, sp)
  /\ UNCHANGED startupVars
  /\ UNCHANGED <<readyPc, resolved, fileExists>>
  /\ UNCHANGED sessionVars

\* The sink starts playing the buffered resource; onState logs and returns.
PlayerPlaying ==
  /\ Running
  /\ playerStatus = "Buffering"
  /\ procs[playerRes] = "running"
  /\ playerStatus' = "Playing"
  /\ UNCHANGED <<started, loopPc, loopDelay, listeners, procs, spawnCalls,
                 playCalls, playerRes, lastOutcome, loopLaunches, checkedMissing>>
  /\ UNCHANGED startupVars
  /\ UNCHANGED <<readyPc, resolved, fileExists>>
  /\ UNCHANGED sessionVars

\* The sink reaches Idle (stream exhausted or interrupted); every registered
\* onState removes itself, kills its decode process and resolves the wait of
\* its iteration.
PlayerIdle ==
  /\ Running
  /\ playerStatus # "Idle"
  /\ playerStatus' = "Idle"
  /\ playerRes' = 0
  /\ listeners' = {p \in listeners : p \in removeListener(listeners, p)}
  /\ procs' = KillAll(procs, listeners)
  /\ IF loopPc = "waitIdle"
       THEN /\ loopPc' = AfterIdle.pc
            /\ loopDelay' = AfterIdle.delay
       ELSE UNCHANGED <<loopPc, loopDelay>>
  /\ UNCHANGED <<started, spawnCalls, playCalls, lastOutcome, loopLaunches,
                 checkedMissing>>
  /\ UNCHANGED startupVars
  /\ UNCHANGED <<readyPc, resolved, fileExists>>
  /\ UNCHANGED sessionVars

\* A decode process ends by itself (end of input, or broken pipe)
ProcExit ==
  /\ Running
  /\ \E p \in Unterminated : procs' = [procs EXCEPT ![p] = "exited"]
  /\ UNCHANGED <<started, loopPc, loopDelay, listeners, spawnCalls, playCalls,
                 playerStatus, playerRes, lastOutcome, loopLaunches,
                 checkedMissing>>
  /\ UNCHANGED startupVars
  /\ UNCHANGED <<readyPc, resolved, fileExists>>
  /\ UNCHANGED sessionVars

\* ------------------------------------------------ sessions and recovery

LiveStatuses == {"Signalling", "Connecting", "Ready", "Disconnected"}

\* The selfDeaf and selfMute options joinAndPlay passes when it opens the
\* first connection: false/false in index.js, true/false in the uptime variant
InitialFlags(v) ==
  IF v = "index" THEN [selfDeaf |-> "false", selfMute |-> "false"]
  ELSE [selfDeaf |-> "true", selfMute |-> "false"]

\* The options the recovery handler passes when it joins afresh: none in
\* index.js (the properties are absent from the object literal), false/false
\* in the uptime variant
RejoinFlags(v) ==
  IF v = "index" THEN [selfDeaf |-> "undefined", selfMute |-> "undefined"]
  ELSE [selfDeaf |-> "false", selfMute |-> "false"]

\* joinVoiceChannel({channelId, guildId, adapterCreator, ...}): a fresh
\* connection that starts signalling
joinVoiceChannel(chId, caller, flags) ==
  [status |-> "Signalling", channel |-> chId, openedBy |-> caller,
   selfDeaf |-> flags.selfDeaf, selfMute |-> flags.selfMute]

\* Faulty variant: the stale connection is left as it is
destroy_skipped(ss, s) == ss

\* connection.destroy(); a second destroy throws and the throw is swallowed
destroy(ss, s) == [ss EXCEPT ![s].status = "Destroyed"]

\* The player's subscriptions once the connections are ss: a connection that
\* is destroyed unsubscribes itself
Subscribed(subs, ss) == {s \in subs : ss[s].status # "Destroyed"}

\* if (!ch.isVoiceBased && ch.type !== 2)
ChannelRejected(ch) == ~Truthy(ch.isVoiceBased) /\ ch.type # GuildVoice

\* Faulty variant: a destroyed connection is taken for a disconnected one
TriggersRecovery_orDestroyed(status) == status \in {"Disconnected", "Destroyed"}

\* if (newState.status === VoiceConnectionStatus.Disconnected)
TriggersRecovery(status) == status = "Disconnected"

\* entersState(connection, VoiceConnectionStatus.Signalling, 5_000)
FirstWait == "Signalling"

\* Faulty variant: the second wait is for Ready
SecondWait_ready == "Ready"

\* entersState(connection, VoiceConnectionStatus.Connecting, 5_000)
SecondWait == "Connecting"

\* The closure the next joinAndPlay call creates
FreeClosures == {j \in Closures : jpPc[j] = "none"}
NextClosure == CHOOSE j \in FreeClosures : \A k \in FreeClosures : j <= k

\* joinAndPlay after the wait for Ready (the whole of it in the uptime
\* variant): connection.subscribe(player), start of the loop under the
\* started flag, registration of the recovery listener on `connection`.
\* subscribe() on a destroyed connection does nothing.
JoinAndPlayRest(j, s, live) ==
  /\ subscribers' = IF live THEN subscribers \cup {s} ELSE subscribers
  /\ LaunchPlayLoop
  /\ recListener' = [recListener EXCEPT ![j] = s]
  /\ jpPc' = [jpPc EXCEPT ![j] = "done"]
  /\ UNCHANGED <<loopDelay, listeners, procs, spawnCalls, playCalls,
                 playerStatus, playerRes, lastOutcome>>

\* joinAndPlay(channel) up to its first await
JoinAndPlay(j, ch) ==
  LET s == Len(sessions) + 1 IN
  /\ Len(sessions) < MaxSessions
  /\ sessions' = Append(sessions, joinVoiceChannel(ch.id, "joinAndPlay",
                                                InitialFlags(variant)))
  /\ connection' = [connection EXCEPT ![j] = s]
  /\ jpChannel' = [jpChannel EXCEPT ![j] = ch.id]
  /\ openCalls' = openCalls + 1
  /\ IF variant = "index"
       THEN /\ jpPc' = [jpPc EXCEPT ![j] = "waitReady"]
            /\ UNCHANGED <<subscribers, recListener>>
            /\ UNCHANGED loopVars
       ELSE JoinAndPlayRest(j, s, TRUE)
  /\ UNCHANGED <<readyWait, handlers, destroyCalls, lastRecovery, lastEnd>>

\* client.once('ready'): logs, then awaits client.channels.fetch
ReadyEvent ==
  /\ Running
  /\ loginState = "ok"
  /\ readyPc = "armed"
  /\ readyPc' = "fetching"
  /\ UNCHANGED startupVars
  /\ UNCHANGED <<resolved, fileExists>>
  /\ UNCHANGED loopVars
  /\ UNCHANGED sessionVars

\* channels.fetch settles; the handler returns on a missing or rejected
\* channel and otherwise calls joinAndPlay(ch)
FetchResolves ==
  /\ Running
  /\ readyPc = "fetching"
  /\ FreeClosures # {}
  /\ readyPc' = "done"
  /\ \E ch \in FetchResults :
       /\ resolved' = ch.id
       /\ IF ch = NullChannel \/ ChannelRejected(ch)
            THEN UNCHANGED loopVars /\ UNCHANGED sessionVars
            ELSE JoinAndPlay(NextClosure, ch)
  /\ UNCHANGED startupVars
  /\ UNCHANGED fileExists

\* Faulty variant: a timeout of the wait ends joinAndPlay
AbortsJoin_onTimeout(how) == how = "timeout"

\* try { await entersState(connection, Ready, 60_000) } catch (err) { warn }:
\* neither end of the wait ends joinAndPlay
AbortsJoin(how) == FALSE

\* entersState(connection, Ready, 60_000) rejects; the catch logs and
\* joinAndPlay continues
JoinReadyTimeout ==
  /\ Running
  /\ \E j \in Closures :
       /\ jpPc[j] = "waitReady"
       /\ readyWait' = [readyWait EXCEPT ![j] = "timeout"]
       /\ IF AbortsJoin("timeout")
            THEN /\ jpPc' = [jpPc EXCEPT ![j] = "done"]
                 /\ UNCHANGED <<subscribers, recListener>>
                 /\ UNCHANGED loopVars
            ELSE JoinAndPlayRest(j, connection[j],
                                 sessions[connection[j]].status # "Destroyed")
  /\ UNCHANGED <<sessions, connection, jpChannel, handlers, destroyCalls,
                 openCalls, lastRecovery, lastEnd>>
  /\ UNCHANGED startupVars
  /\ UNCHANGED <<readyPc, resolved, fileExists>>

\* entersState(connection, Connecting, 5000) as called by closure j's handler
\* when the statuses are ss: resolved at once, or a handler left waiting
StartConnecting(h, ss) ==
  LET t == connection[h.j] IN
  IF ss[t].status = SecondWait THEN <<>>
  ELSE <<[j |-> h.j, observed |-> h.observed, target |-> t, stage |-> "second"]>>

\* entersState(connection, Signalling, 5000) as called on a Disconnected event
StartSignalling(j, s, ss) ==
  LET t == connection[j]
      h == [j |-> j, observed |-> s, target |-> t, stage |-> "first"]
  IN IF ss[t].status = FirstWait THEN StartConnecting(h, ss) ELSE <<h>>

RECURSIVE Continue(_, _, _, _)
\* The status the wait of handler h is for
Awaited(h) == IF h.stage = "first" THEN FirstWait ELSE SecondWait

\* Handlers whose first wait is resolved by session s entering st go on to
\* their second wait, in order
Continue(hs, s, st, ss) ==
  IF hs = <<>> THEN <<>>
  ELSE LET h == Head(hs) IN
       (IF h.target = s /\ h.stage = "first" /\ st = FirstWait
          THEN StartConnecting(h, ss) ELSE <<>>)
       \o Continue(Tail(hs), s, st, ss)

RECURSIVE StillWaiting(_, _, _)
\* Handlers whose current wait is not resolved by session s entering st
StillWaiting(hs, s, st) ==
  IF hs = <<>> THEN <<>>
  ELSE LET h == Head(hs) IN
       (IF h.target = s /\ Awaited(h) = st THEN <<>> ELSE <<h>>)
       \o StillWaiting(Tail(hs), s, st)

RECURSIVE Triggered(_, _, _, _)
\* The recovery listeners registered on session s run, in closure order
Triggered(js, s, st, ss) ==
  IF js = {} THEN <<>>
  ELSE LET j == CHOOSE k \in js : \A m \in js : k <= m IN
       (IF TriggersRecovery(st) THEN StartSignalling(j, s, ss) ELSE <<>>)
       \o Triggered(js \ {j}, s, st, ss)

\* Session s is one the program still holds or listens to: a `connection`
\* variable, a recovery listener, a pending wait or the player's subscription
\* refers to it.  A state change of any other session runs no code.
Referenced(s) ==
  \/ s \in subscribers
  \/ \E j \in Closures : connection[j] = s \/ recListener[j] = s
  \/ \E k \in 1..Len(handlers) : handlers[k].target = s

\* Closures whose joinAndPlay is waiting for session s to become Ready
Joining(s) == {j \in Closures : jpPc[j] = "waitReady" /\ connection[j] = s}

\* Session s becomes Ready while joinAndPlay awaits entersState(connection,
\* Ready, 60_000): the wait resolves and joinAndPlay runs to its end.  No
\* recovery listener is on s yet.
SessionReady ==
  /\ Running
  /\ \E s \in 1..Len(sessions) :
       /\ sessions[s].status \notin {"Destroyed", "Ready"}
       /\ Joining(s) # {}
       /\ sessions' = [sessions EXCEPT ![s].status = "Ready"]
       /\ \E j \in Joining(s) :
            /\ readyWait' = [readyWait EXCEPT ![j] = "ready"]
            /\ IF AbortsJoin("ready")
                 THEN /\ jpPc' = [jpPc EXCEPT ![j] = "done"]
                      /\ UNCHANGED <<subscribers, recListener>>
                      /\ UNCHANGED loopVars
                 ELSE JoinAndPlayRest(j, s, TRUE)
  /\ UNCHANGED <<connection, jpChannel, handlers, destroyCalls, openCalls,
                 lastRecovery, lastEnd>>
  /\ UNCHANGED startupVars
  /\ UNCHANGED <<readyPc, resolved, fileExists>>

\* Any other 'stateChange' of session s to status st, with everything it
\* wakes: recovery handlers waiting for st on s, and the recovery listeners
\* registered on s.
SessionChange ==
  /\ Running
  /\ \E s \in 1..Len(sessions), st \in LiveStatuses :
       LET ss == [sessions EXCEPT ![s].status = st]
           listening == {j \in Closures : recListener[j] = s}
       IN
       /\ sessions[s].status \notin {"Destroyed", st}
       /\ Referenced(s)
       /\ ~(st = "Ready" /\ Joining(s) # {})
       /\ sessions' = ss
       /\ handlers' = StillWaiting(handlers, s, st)
                        \o Continue(handlers, s, st, ss)
                        \o Triggered(listening, s, st, ss)
       /\ Len(handlers') <= MaxHandlers
       /\ lastEnd' = IF Len(handlers') < Len(handlers)
                           + (IF TriggersRecovery(st) THEN Cardinality(listening) ELSE 0)
                       THEN "transient" ELSE lastEnd
  /\ UNCHANGED <<subscribers, recListener, jpPc, connection, jpChannel,
                 readyWait, destroyCalls, openCalls, lastRecovery>>
  /\ UNCHANGED startupVars
  /\ UNCHANGED <<readyPc, resolved, fileExists>>
  /\ playerStatus' = SinkStatus(playerStatus, subscribers', sessions')
  /\ UNCHANGED loopRest

\* How the catch block of a recovery handler can end: it runs to its end, or
\* joinVoiceChannel throws, or fresh.subscribe(player) throws.  A throw of
\* connection.destroy() is swallowed by the inner try/catch.
RejoinOutcomes == {"ok", "joinThrows", "subscribeThrows"}

\* An exception thrown inside the catch block of the async listener rejects
\* the promise the listener returned, which nothing awaits
Escapes(outcome) == outcome # "ok"

\* The recovery listeners that a destroy of session s runs (a connection that
\* is destroyed already emits nothing)
Listening(s) ==
  IF sessions[s].status = "Destroyed" THEN {}
  ELSE {j \in Closures : recListener[j] = s}

\* The 5 s wait of the handler that armed its timer first rejects; its catch
\* block destroys `connection` (whose 'stateChange' to Destroyed runs the
\* listeners on it), joins afresh, subscribes the player to the fresh
\* connection and rebinds `connection`.  A throw of the join or of the
\* subscribe ends the block there and surfaces as an 'unhandledRejection'
\* event, which the process-level handler logs.
HandlerTimeout ==
  /\ Running
  /\ handlers # <<>>
  /\ \E outcome \in RejoinOutcomes :
       LET h == Head(handlers)
           stale == connection[h.j]
           fresh == Len(sessions) + 1
           opened == outcome # "joinThrows"
           completed == outcome = "ok"
       IN
       /\ opened => Len(sessions) < MaxSessions
       /\ destroyCalls' = destroyCalls + 1
       /\ openCalls' = openCalls + 1
       /\ sessions' = IF opened
                         THEN Append(destroy(sessions, stale),
                                     joinVoiceChannel(jpChannel[h.j], "recovery",
                                                      RejoinFlags(variant)))
                         ELSE destroy(sessions, stale)
       /\ handlers' = Tail(handlers)
                        \o Triggered(Listening(stale), stale, "Destroyed", sessions')
       /\ Len(handlers') <= MaxHandlers
       /\ subscribers' = Subscribed(subscribers, destroy(sessions, stale))
                           \cup (IF completed THEN {fresh} ELSE {})
       /\ connection' = IF completed
                           THEN [connection EXCEPT ![h.j] = fresh]
                           ELSE connection
       /\ lastRecovery' = IF completed
                             THEN [observed |-> h.observed,
                                   destroyed |-> stale, opened |-> fresh]
                             ELSE lastRecovery
       /\ lastEnd' = IF Escapes(outcome) THEN "unhandledRejection" ELSE "rejoined"
  /\ UNCHANGED <<jpPc, jpChannel, readyWait, recListener>>
  /\ UNCHANGED startupVars
  /\ UNCHANGED <<readyPc, resolved, fileExists>>
  /\ playerStatus' = SinkStatus(playerStatus, subscribers', sessions')
  /\ UNCHANGED loopRest

\* The library tears a connection down by itself (adapter destroyed); the
\* 'stateChange' to Destroyed runs the listeners on it
ExternalDestroy ==
  /\ Running
  /\ \E s \in 1..Len(sessions) :
       /\ sessions[s].status # "Destroyed"
       /\ Referenced(s)
       /\ sessions' = destroy(sessions, s)
       /\ subscribers' = Subscribed(subscribers, sessions')
       /\ handlers' = handlers \o Triggered(Listening(s), s, "Destroyed", sessions')
       /\ Len(handlers') <= MaxHandlers
  /\ UNCHANGED <<connection, jpPc, jpChannel, readyWait, recListener,
                 destroyCalls, openCalls, lastRecovery, lastEnd>>
  /\ UNCHANGED startupVars
  /\ UNCHANGED <<readyPc, resolved, fileExists>>
  /\ playerStatus' = SinkStatus(playerStatus, subscribers', sessions')
  /\ UNCHANGED loopRest

\* The ready-handling path is run once more, as a duplicate readiness event
\* would run it.  client.once delivers only the first event, so this step
\* belongs to SpecJoins alone.
DuplicateReady ==
  /\ Running
  /\ readyPc = "done"
  /\ FreeClosures # {}
  /\ readyPc' = "fetching"
  /\ UNCHANGED startupVars
  /\ UNCHANGED <<resolved, fileExists>>
  /\ UNCHANGED loopVars
  /\ UNCHANGED sessionVars

Next ==
  \/ Main
  \/ LoginResolves
  \/ LoginRejects
  \/ FileChanges
  \/ ReadyEvent
  \/ FetchResolves
  \/ JoinReadyTimeout
  \/ SessionReady
  \/ SessionChange
  \/ HandlerTimeout
  \/ ExternalDestroy
  \/ LoopFirstIteration
  \/ LoopTimerFires
  \/ PlayerPlaying
  \/ PlayerIdle
  \/ ProcExit

Spec == Init /\ [][Next]_vars

\* The ready-handling path run repeatedly, with the sessions it opens and
\* the playback loop, but without the recovery protocol's rejoins
NextJoins ==
  \/ Main
  \/ LoginResolves
  \/ LoginRejects
  \/ FileChanges
  \/ ReadyEvent
  \/ DuplicateReady
  \/ FetchResolves
  \/ JoinReadyTimeout
  \/ SessionReady
  \/ LoopFirstIteration
  \/ LoopTimerFires
  \/ PlayerPlaying
  \/ PlayerIdle
  \/ ProcExit

SpecJoins == Init /\ [][NextJoins]_vars

\* The program up to the playback loop: startup, the ready handler,
\* joinAndPlay and the loop with its sink and decode processes.  The steps
\* left out (later session state changes and the recovery handlers) leave
\* every variable of the loop unchanged.
NextLoop ==
  \/ Main
  \/ LoginResolves
  \/ LoginRejects
  \/ FileChanges
  \/ ReadyEvent
  \/ FetchResolves
  \/ JoinReadyTimeout
  \/ SessionReady
  \/ LoopFirstIteration
  \/ LoopTimerFires
  \/ PlayerPlaying
  \/ PlayerIdle
  \/ ProcExit

\* The event loop runs every continuation and timer callback that is due,
\* and every decode stream ends: the sink reaches Idle for each resource.
FairSpec ==
  /\ Init
  /\ [][NextLoop]_vars
  /\ WF_vars(LoopFirstIteration)
  /\ WF_vars(LoopTimerFires)
  /\ WF_vars(PlayerIdle)

\* ------------------------------------------------------------ properties

\* C1: at most one spawned decode process is unterminated (spawned and
\* neither killed nor exited) in every reachable state.
C1_SingleActiveDecoder == Cardinality(Unterminated) <= 1

\* A step in which a recovery handler runs its destroy-and-rejoin block
Rejoined == lastRecovery' # lastRecovery

\* C2: a recovery handler whose wait timed out makes exactly one destroy
\* call, on the session whose Disconnected event it handles, and exactly one
\* session-open call for the same channel, after which the sink is subscribed
\* to the fresh session.
C2_TerminalRecovery ==
  [][Rejoined =>
       /\ destroyCalls' = destroyCalls + 1
       /\ openCalls' = openCalls + 1
       /\ lastRecovery'.destroyed = lastRecovery'.observed
       /\ sessions'[lastRecovery'.destroyed].status = "Destroyed"
       /\ sessions'[lastRecovery'.opened].channel
            = sessions[lastRecovery'.observed].channel
       /\ lastRecovery'.opened \in subscribers']_vars

\* A step in which the second bounded wait of handler i succeeds: the handler
\* is past its wait for Signalling and its session enters Connecting
SecondWaitSucceeds(i) ==
  /\ handlers[i].stage = "second"
  /\ sessions[handlers[i].target].status # "Connecting"
  /\ sessions'[handlers[i].target].status = "Connecting"

\* C3: when both bounded waits of a recovery handler succeed, the handler
\* ends without a destroy call and without a session-open call, and the
\* session object and the sink's subscription stay as they were.
C3_TransientRecovery ==
  [][\A i \in 1..Len(handlers) :
       SecondWaitSucceeds(i) =>
         /\ Len(handlers') < Len(handlers)
         /\ \A k \in 1..Len(handlers') : handlers'[k] # handlers[i]
         /\ destroyCalls' = destroyCalls
         /\ openCalls' = openCalls
         /\ Len(sessions') = Len(sessions)
         /\ connection' = connection
         /\ subscribers' = subscribers]_vars

\* C3 witness: a handler has ended transiently, with no rejoin so far
C3_Witness ==
  /\ lastEnd = "transient"
  /\ handlers = <<>>
  /\ sessions[recListener[1]].status = "Connecting"
  /\ connection[1] = recListener[1]
  /\ destroyCalls = 0
  /\ openCalls = 1
  /\ recListener[1] \in subscribers

\* C4: a Disconnected event of a session that a recovery opened starts a
\* recovery handler for that session.
C4_RepeatedRecovery ==
  [][\A s \in 1..Len(sessions) :
       (/\ sessions[s].openedBy = "recovery"
        /\ sessions[s].status # "Disconnected"
        /\ sessions'[s].status = "Disconnected")
       => \E k \in 1..Len(handlers') : handlers'[k].observed = s]_vars

\* C5: however often joinAndPlay runs, the playback loop is launched exactly
\* once, and the started flag is set exactly when it was launched.
C5_IdempotentStartup ==
  /\ loopLaunches <= 1
  /\ started <=> (loopLaunches = 1)
  /\ (\E j \in Closures : jpPc[j] = "done") => loopLaunches = 1

\* C5 witness: two joinAndPlay invocations have run to their end
C5_Witness ==
  /\ jpPc[1] = "done"
  /\ jpPc[2] = "done"
  /\ loopLaunches = 1

\* C6: an exception in an iteration is caught, the loop sleeps the longer
\* backoff and then starts a further iteration that calls the decoder spawn
\* again; the loop never ends and the process keeps running.
C6_CrashIsolation ==
  /\ [](lastOutcome \in Throws =>
          /\ Running
          /\ loopPc = "sleep"
          /\ loopDelay = LongBackoff
          /\ loopDelay > ShortDelay)
  /\ [][(loopPc \in {"ready", "waitIdle", "sleep"})
          => (loopPc' \in {"ready", "waitIdle", "sleep"})]_vars
  /\ \A n \in 1..(MaxSpawns - 1) :
       (lastOutcome \in Throws /\ spawnCalls = n) ~> (spawnCalls = n + 1)

\* C6 witness: an iteration follows one that threw after its spawn
C6_Witness ==
  /\ lastOutcome = "ok"
  /\ spawnCalls = 2
  /\ Len(procs) = 2
  /\ procs[1] = "running"
  /\ loopPc = "waitIdle"

\* C7: once the sink reaches Idle the loop arms the short delay, the next
\* decoder start happens when that timer fires, and the number of decoder
\* starts reaches every bound.
C7_LoopLiveness ==
  /\ [][(loopPc = "waitIdle" /\ playerStatus # "Idle" /\ playerStatus' = "Idle")
          => (loopPc' = "sleep" /\ loopDelay' = ShortDelay)]_vars
  /\ [][(loopPc = "sleep" /\ <<loopPc, loopDelay, lastOutcome>>' # <<loopPc, loopDelay, lastOutcome>>)
          => spawnCalls' = spawnCalls + 1]_vars
  /\ \A n \in 1..(MaxSpawns - 1) :
       (loopPc = "waitIdle" /\ spawnCalls = n) ~> (spawnCalls = n + 1)
  /\ (loopPc = "ready") ~> (spawnCalls = MaxSpawns)

\* C7 witness: an empty stream (failed spawn) was played to Idle and the
\* short delay is armed
C7_Witness ==
  /\ loopPc = "sleep"
  /\ loopDelay = ShortDelay
  /\ lastOutcome = "ok"
  /\ procs # <<>>
  /\ procs[Len(procs)] = "failed"

\* C8: when the file was absent at the loop's check, no decode process is
\* ever spawned and play is never called, whatever happens later.
C8_MissingFile ==
  checkedMissing =>
    /\ spawnCalls = 0
    /\ playCalls = 0
    /\ procs = <<>>
    /\ playerStatus = "Idle"
    /\ loopPc = "returned"

\* C8 witness: the file was absent at the check and has appeared since, and
\* a later joinAndPlay has run to its end
C8_Witness ==
  /\ checkedMissing
  /\ fileExists
  /\ jpPc[1] = "done"
  /\ jpPc[2] = "done"

\* C9: when the channel identifier resolves to a text channel, or does not
\* resolve, no session is opened and no decode process is spawned, and the
\* process keeps running.
C9_NonVoiceRejected ==
  resolved \in {"text", "null"} =>
    /\ openCalls = 0
    /\ sessions = <<>>
    /\ spawnCalls = 0
    /\ Running

\* C10: with the token or the channel identifier absent, the process does
\* nothing but exit with status 1: no login, no HTTP listen, no session,
\* no decode process.
C10_MissingConfigFatal ==
  (TOKEN = "unset" \/ VOICE_CHANNEL_ID = "unset") =>
    /\ processState \in {"init", "exited"}
    /\ processState = "exited" => exitCode = 1
    /\ loginState = "none"
    /\ ~httpListening
    /\ openCalls = 0
    /\ spawnCalls = 0

\* C10 witness: the uptime variant has exited on a missing channel identifier
C10_Witness ==
  /\ variant = "uptime"
  /\ TOKEN = "set"
  /\ VOICE_CHANNEL_ID = "unset"
  /\ processState = "exited"
  /\ exitCode = 1
\* C11: every session-open call, the initial one and each fresh one made by
\* the recovery handler, passes the same selfDeaf and selfMute values for the
\* same channel.
C11_UniformSessionFlags ==
  \A s, t \in 1..Len(sessions) :
    sessions[s].channel = sessions[t].channel =>
      /\ sessions[s].selfDeaf = sessions[t].selfDeaf
      /\ sessions[s].selfMute = sessions[t].selfMute

\* C12: the sink is subscribed to at most one session that is not Destroyed,
\* whatever the interleaving of joinAndPlay, transient recoveries and
\* terminal recoveries.
C12_SingleSubscription ==
  Cardinality({s \in subscribers : sessions[s].status # "Destroyed"}) <= 1

\* Two terminal recoveries have run: the sink is on the third session alone
C12_Witness ==
  /\ lastEnd = "rejoined"
  /\ Len(sessions) = 3
  /\ sessions[1].status = "Destroyed"
  /\ sessions[2].status = "Destroyed"
  /\ subscribers = {3}

\* C13: the step in which the recovery handler destroys the stale session and
\* opens the fresh one leaves the loop's iteration state, the decode
\* processes, the sink's play state and the loop's idle-detection
\* subscription unchanged.
C13_ReplacementKeepsPlayback ==
  [][destroyCalls' # destroyCalls =>
       /\ UNCHANGED <<loopPc, loopDelay, lastOutcome, spawnCalls, started>>
       /\ UNCHANGED procs
       /\ UNCHANGED <<playerStatus, playerRes, playCalls>>
       /\ UNCHANGED listeners]_vars

\* A session was replaced while an iteration plays its decode process
C13_Witness ==
  /\ lastEnd = "rejoined"
  /\ loopPc = "waitIdle"
  /\ playerStatus = "Playing"
  /\ listeners = {playerRes}
  /\ procs[playerRes] = "running"

\* Session s enters status st in this step
Enters(s, st) == sessions[s].status # st /\ sessions'[s].status = st

\* C14: only Disconnected starts recovery.  A change of a session to Ready,
\* Signalling or Connecting, or to Destroyed other than by the program's own
\* destroy call, starts no handler and causes no destroy call and no open
\* call; a handler starts only on a Disconnected event, and a session is
\* opened only by joinAndPlay or by a handler that ends in that step, so a
\* session destroyed outside recovery is never replaced.
C14_OnlyDisconnectedRecovers ==
  /\ [][\A s \in 1..Len(sessions) :
          (\/ Enters(s, "Ready") \/ Enters(s, "Signalling")
           \/ Enters(s, "Connecting")
           \/ (Enters(s, "Destroyed") /\ destroyCalls' = destroyCalls))
          => /\ Len(handlers') <= Len(handlers)
             /\ destroyCalls' = destroyCalls
             /\ openCalls' = openCalls]_vars
  /\ [][Len(handlers') > Len(handlers) =>
          \E s \in 1..Len(sessions) : Enters(s, "Disconnected")]_vars
  /\ [][openCalls' # openCalls =>
          \/ \E j \in Closures : jpPc[j] = "none" /\ jpPc'[j] # "none"
          \/ handlers # <<>> /\ handlers' = Tail(handlers)]_vars

\* The session the recovery listener is on was destroyed by the library and
\* nothing followed
C14_Witness ==
  /\ recListener[1] # 0
  /\ sessions[recListener[1]].status = "Destroyed"
  /\ destroyCalls = 0
  /\ openCalls = 1
  /\ handlers = <<>>
  /\ lastEnd = "none"

\* C15: every Disconnected transition of the session joinAndPlay opened, also
\* one before the session was first Ready or during the bounded wait for
\* Ready, starts a recovery handler.
C15_ObservedFromOpen ==
  [][\A s \in 1..Len(sessions) :
       (sessions[s].openedBy = "joinAndPlay" /\ Enters(s, "Disconnected"))
       => Len(handlers') > Len(handlers)]_vars

\* C16: a decode process spawned by an iteration is killed when the sink
\* reaches Idle for that iteration or when the iteration ends with an
\* exception, so a process that is still running belongs to the iteration
\* that is waiting for Idle; no process handle is held by two iterations.
C16_DecoderTerminated ==
  /\ \A p \in Unterminated : p \in listeners /\ loopPc = "waitIdle"
  /\ Len(procs) <= spawnCalls

\* C17: the loop has at most one state-change subscription on the sink at
\* any time; the subscription of an iteration is removed when the sink
\* reaches Idle, before the next iteration subscribes.
C17_NoListenerLeak ==
  /\ [](Cardinality(listeners) <= 1)
  /\ [][(playerStatus # "Idle" /\ playerStatus' = "Idle") => listeners' = {}]_vars
  /\ [][listeners' \ listeners # {} => listeners = {}]_vars

\* The second iteration has subscribed after the first one's subscription
\* was removed on Idle
C17_Witness ==
  /\ listeners = {2}
  /\ procs[1] = "killed"
  /\ loopPc = "waitIdle"
  /\ spawnCalls = 2

\* C18: whatever fails inside the recovery handler (the destroy of the stale
\* session, the fresh session-open call or the re-subscribe), the failure is
\* handled inside the handler and never reaches the process-level handler
\* of unhandled rejections.
C18_NoUnhandledRejection == lastEnd # "unhandledRejection"

\* C19: when two Disconnected events of one session overlap and both handlers
\* reach the destroy-and-rejoin block, each destroy call is made on the
\* session on which the handler's event was observed; no handler destroys a
\* fresh session that another handler has opened.
C19_DestroysOnlyStale ==
  lastRecovery.destroyed # 0 =>
    /\ lastRecovery.destroyed = lastRecovery.observed
    /\ sessions[lastRecovery.destroyed].openedBy = "joinAndPlay"

\* Closure j's joinAndPlay leaves its wait for Ready in this step
WaitEnds(j) == jpPc[j] = "waitReady" /\ jpPc'[j] # "waitReady"

\* C20 as stated: whether the session reaches Ready within the wait or the
\* wait times out, joinAndPlay subscribes the sink to the session, starts the
\* loop if it was not started, and installs the disconnect observer.
C20_StartsRegardless ==
  [][\A j \in Closures : WaitEnds(j) =>
       /\ connection[j] \in subscribers'
       /\ started'
       /\ loopPc' # "notStarted"
       /\ recListener'[j] = connection[j]]_vars

\* C20 amended: however the wait ends, the loop is started and the observer
\* installed, and the sink is subscribed to the session unless the session
\* was destroyed while joinAndPlay waited.
C20_StartsRegardlessUnlessDestroyed ==
  [][\A j \in Closures : WaitEnds(j) =>
       /\ sessions[connection[j]].status # "Destroyed"
            => connection[j] \in subscribers'
       /\ started'
       /\ loopPc' # "notStarted"
       /\ recListener'[j] = connection[j]]_vars

\* The wait timed out on a session that never was Ready, and joinAndPlay
\* has subscribed, started the loop and installed the observer
C20_Witness ==
  /\ readyWait[1] = "timeout"
  /\ jpPc[1] = "done"
  /\ sessions[1].status = "Connecting"
  /\ 1 \in subscribers
  /\ recListener[1] = 1
  /\ started
  /\ loopPc = "waitIdle"

====
